---- MODULE Spec2Model ----
(***************************************************************************)
(* Model of nagare.admin.create: the provenance record written by          *)
(* Command.create_project, the ancestor chain read by                      *)
(* Command.retreive_inherited_context, the git-mediated upgrade of         *)
(* Upgrade.upgrade / Upgrade.run, and the create command (Create._run,     *)
(* Create.run, Create.create, and Create.create of nagare.admin.app_create)*)
(***************************************************************************)
EXTENDS Integers, Sequences, FiniteSets, TLC

(***************************************************************************)
(* Bounds                                                                  *)
(***************************************************************************)
MaxCommits == 2
MaxContent == 2
MaxDepth == 3
MaxValue == 2
MaxPrefix == 2

(***************************************************************************)
(* Program constants                                                       *)
(***************************************************************************)
NAGARE_TEMPLATE_FILE == ".nagare-template.json"
NAGARE_TEMPLATE_BRANCH == "nagare-template"

(***************************************************************************)
(* Generic helpers on mappings (python dicts)                              *)
(***************************************************************************)
EmptyDict == <<>>

\* dict.update: the entries of d2 override those of d1
DictUpdate(d1, d2) ==
    [k \in (DOMAIN d1) \cup (DOMAIN d2) |-> IF k \in DOMAIN d2 THEN d2[k] ELSE d1[k]]

\* every mapping from a subset of keys to values
Dicts(keys, values) == UNION {[s -> values] : s \in SUBSET keys}

(***************************************************************************)
(* Version-control state: files, trees, commits                           *)
(***************************************************************************)
Files == {"f1", "f2"}

\* a tree gives each file its content, 0 meaning that the file is absent
Trees == [Files -> 0..MaxContent]
EmptyTree == [f \in Files |-> 0]
FullTree == [f \in Files |-> 1]
HalfTree == [f \in Files |-> IF f = "f1" THEN 1 ELSE 0]
InitTrees == {FullTree, HalfTree}

\* exit codes of a failing git subprocess
FailCodes == {1, 128}

\* the --ignore patterns, each given by the set of files it matches
IgnoreChoices == { {}, {{"f1"}}, {{"f2"}}, {{"f1"}, {"f1", "f2"}} }

NoExc == [type |-> "none", rc |-> 0]
CalledProcessError(rc) == [type |-> "CalledProcessError", rc |-> rc]
OtherError == [type |-> "Exception", rc |-> 0]

\* a template reference: the text before the first ':' (the scheme of
\* urlsplit), the text after it, and the fragment after '#'
Ref(prefix, body, fragment) ==
    [prefix |-> prefix, body |-> body, fragment |-> fragment]

\* the empty string
NoRef == Ref("", "", "")

RepositoryNotFound == [type |-> "RepositoryNotFound", rc |-> 0]

\* the record file of a project directory that has none
NoFile == [exists |-> FALSE, doc |-> <<>>]

VARIABLES
    pc,          \* position in Upgrade.run / Upgrade.upgrade
    exc,         \* exception in flight
    status,      \* value returned by run, -1 while running
    out,         \* messages printed
    trace,       \* steps executed so far (git subcommands and file operations)
    args,        \* arguments of the run: template, merge, ignore, ...
    commits,     \* commit graph: sequence of [parents, tree]
    head,        \* tip of the main line, 0 when HEAD is not resolvable
    localTip,    \* tip of the local nagare-template branch, 0 when absent
    remoteTip,   \* tip of origin/nagare-template, 0 when absent
    workdir,     \* TRUE when .git/nagare-template exists on disk
    registered,  \* TRUE when a work tree is registered at work_directory
    wtTree,      \* files in the isolated working copy
    index,       \* index of the isolated working copy
    targetTree,  \* files of the caller's checkout
    callerIndex, \* index of the caller's checkout
    firstref,    \* result of rev-list in create_template_branch
    diff,        \* exit status of git diff-index, -1 before it ran
    before,      \* repository and target as they were when the run started
    generated,   \* working copy as the rendering engine left it
    kpc,         \* position in _run / run / create / create_project
    impl,        \* "create" (create.py) or "app_create" (app_create.py)
    typed,       \* template argument of the command line, NoRef when absent
    command_names, \* len(command_names) of the first call of _run
    reentered,   \* TRUE once _run has re-executed the command
    reference,   \* the template argument as the current function holds it
    subpath,     \* app create: the sub-path split from the reference
    repo_uri,    \* the reference determine_repo_dir reports as used
    clone,       \* "none", "kept", "transient" or "deleted"
    project,     \* "none", "rendered" or "failed": result of the rendering
    file,        \* the record file of the project directory
    prior,       \* that file as it was before the command
    tried,       \* references handed to the template resolver, in order
    notfound,    \* number of RepositoryNotFound raised
    kexc,        \* exception in flight in the create command
    kstatus,     \* status returned by Create.run, -1 while running
    ktrace,      \* steps of the create command executed so far
    pstep,       \* position in the provenance scenarios
    template,    \* template reference handed to create_project
    context,     \* context handed to create_project
    inherited,   \* inherited context handed to create_project
    record,      \* content of the record file written by create_project
    loaded,      \* context rebuilt by upgrade from the record
    declared,    \* parameters and defaults the template declares at upgrade time
    override,    \* --template of the upgrade, 0 when not given
    handed,      \* context upgrade hands to the rendering engine
    rewritten,   \* record upgrade writes into the regenerated project
    fs,          \* provenance records on disk, by directory
    cwd,         \* current directory of the process
    output_dir,  \* path handed to retreive_inherited_context
    chain,       \* result of retreive_inherited_context
    dpc,         \* position in the path computations of Upgrade.upgrade
    show_toplevel, \* output of git rev-parse --show-toplevel, as components
    show_prefix, \* output of git rev-parse --show-prefix, as components
    rendered_name, \* name of the directory the template renders
    app_name,    \* line 334
    git_directory, \* line 335
    relative_directory, \* line 336
    work_directory, \* line 337: root of the isolated working copy
    dest_directory, \* lines 360-365: output_dir handed to create_project
    removed,     \* directory removed at line 362, <<>> when none
    project_dir, \* directory the rendering engine wrote
    staged,      \* where git add, run in work_directory, finds the project
    ipc,         \* position in the creation and later upgrade of one project
    default_context, \* default_context of the user's configuration
    create_inherited, \* inherited_context of Create.create
    directory,   \* line 324: the absolute path of the upgraded directory
    upgrade_inherited \* inherited_context of Upgrade.upgrade

uvars == <<pc, exc, status, out, trace, args, commits, head, localTip, remoteTip,
           workdir, registered, wtTree, index, targetTree, callerIndex, firstref, diff,
           before, generated>>
rvars == <<pstep, template, context, inherited, record, loaded,
           declared, override, handed, rewritten>>
cvars == <<fs, cwd, output_dir, chain>>
kvars == <<kpc, impl, typed, command_names, reentered, reference, subpath, repo_uri, clone,
           project, file, prior, tried, notfound, kexc, kstatus, ktrace>>
dvars == <<dpc, show_toplevel, show_prefix, rendered_name, app_name, git_directory,
           relative_directory, work_directory, dest_directory, removed, project_dir,
           staged>>
ivars == <<ipc, default_context, create_inherited, directory, upgrade_inherited>>
vars == <<uvars, rvars, cvars, kvars, dvars, ivars>>

(***************************************************************************)
(* git plumbing used by Upgrade                                            *)
(***************************************************************************)
RECURSIVE AncestorsOf(_)
\* the commits reachable from c, c included
AncestorsOf(c) ==
    IF c = 0 THEN {} ELSE {c} \cup UNION {AncestorsOf(p) : p \in commits[c].parents}

\* git rev-list --max-parents=0 HEAD: the parentless commits reachable from c
RootsOf(c) == {a \in AncestorsOf(c) : commits[a].parents = {}}

\* git merge-base: the latest common ancestor (commit ids grow with time)
MergeBase(a, b) ==
    LET common == AncestorsOf(a) \cap AncestorsOf(b)
    IN  IF common = {} THEN 0 ELSE CHOOSE c \in common : \A d \in common : d <= c

TreeOf(c) == IF c = 0 THEN EmptyTree ELSE commits[c].tree

\* content git diff-index compares with HEAD: the working file of every
\* path known to the index, nothing for the others
Effective(idx, wt) == [f \in Files |-> IF idx[f] # 0 THEN wt[f] ELSE 0]

\* git diff-index --quiet HEAD --: 0 when nothing differs, 1 otherwise
DiffIndexStatus(tip, idx, wt) == IF Effective(idx, wt) = TreeOf(tip) THEN 0 ELSE 1

\* files written by the rendering engine over what is already there
Overlay(old, new) == [f \in Files |-> IF new[f] # 0 THEN new[f] ELSE old[f]]

\* three-way merge of one file; -1 marks a conflict
Merge3(base, ours, theirs) ==
    [f \in Files |->
        IF ours[f] = theirs[f] THEN ours[f]
        ELSE IF ours[f] = base[f] THEN theirs[f]
        ELSE IF theirs[f] = base[f] THEN ours[f]
        ELSE -1]

Conflicts(t) == \E f \in Files : t[f] = -1

Log(step) == trace' = Append(trace, step)

(***************************************************************************)
(* Initial states of an upgrade run                                        *)
(***************************************************************************)
ChainCommits(n, trees) ==
    [i \in 1..n |-> [parents |-> IF i = 1 THEN {} ELSE {i - 1}, tree |-> trees[i]]]

ProvIdle ==
    /\ pstep = "idle"
    /\ template = 0
    /\ context = EmptyDict
    /\ inherited = EmptyDict
    /\ record = <<>>
    /\ loaded = EmptyDict
    /\ declared = EmptyDict
    /\ override = 0
    /\ handed = EmptyDict
    /\ rewritten = <<>>

ChainIdle ==
    /\ fs = EmptyDict
    /\ cwd = <<>>
    /\ output_dir = [absolute |-> TRUE, parts |-> <<>>]
    /\ chain = EmptyDict

CreateIdle ==
    /\ kpc = "idle"
    /\ impl = "create"
    /\ typed = NoRef
    /\ command_names = 1
    /\ reentered = FALSE
    /\ reference = NoRef
    /\ subpath = ""
    /\ repo_uri = NoRef
    /\ clone = "none"
    /\ project = "none"
    /\ file = NoFile
    /\ prior = NoFile
    /\ tried = <<>>
    /\ notfound = 0
    /\ kexc = NoExc
    /\ kstatus = -1
    /\ ktrace = <<>>

DestIdle ==
    /\ dpc = "idle"
    /\ show_toplevel = <<>>
    /\ show_prefix = <<>>
    /\ rendered_name = ""
    /\ app_name = ""
    /\ git_directory = <<>>
    /\ relative_directory = <<>>
    /\ work_directory = <<>>
    /\ dest_directory = <<>>
    /\ removed = <<>>
    /\ project_dir = <<>>
    /\ staged = [inside |-> FALSE, at |-> <<>>]

InheritIdle ==
    /\ ipc = "idle"
    /\ default_context = EmptyDict
    /\ create_inherited = EmptyDict
    /\ directory = <<>>
    /\ upgrade_inherited = EmptyDict

UpgradeIdle ==
    /\ pc = "idle"
    /\ exc = NoExc
    /\ status = -1
    /\ out = {}
    /\ trace = <<>>
    /\ args = [template |-> FALSE, merge |-> FALSE, ignore |-> {},
               hasRecord |-> FALSE, relative |-> FALSE]
    /\ commits = <<>>
    /\ head = 0
    /\ localTip = 0
    /\ remoteTip = 0
    /\ workdir = FALSE
    /\ registered = FALSE
    /\ wtTree = EmptyTree
    /\ index = EmptyTree
    /\ targetTree = EmptyTree
    /\ callerIndex = EmptyTree
    /\ firstref = 0
    /\ diff = -1
    /\ before = [head |-> 0, localTip |-> 0, remoteTip |-> 0, ncommits |-> 0,
                 targetTree |-> EmptyTree, callerIndex |-> EmptyTree,
                 workdir |-> FALSE, registered |-> FALSE]
    /\ generated = EmptyTree

Init ==
    /\ ProvIdle
    /\ ChainIdle
    /\ CreateIdle
    /\ DestIdle
    /\ InheritIdle
    /\ pc = "start"
    /\ exc = NoExc
    /\ status = -1
    /\ out = {}
    /\ trace = <<>>
    /\ firstref = 0
    /\ args \in [template : BOOLEAN, merge : BOOLEAN, ignore : IgnoreChoices,
                 hasRecord : BOOLEAN, relative : BOOLEAN]
    /\ \E n \in 0..MaxCommits :
         \E trees \in [1..n -> InitTrees] :
            /\ n >= 1 => trees[1] = FullTree
            /\ commits = ChainCommits(n, trees)
            /\ head = n
            /\ localTip \in 0..n
            /\ remoteTip \in 0..n
            /\ targetTree = IF n = 0 THEN FullTree ELSE trees[n]
            \* the caller's checkout is clean
            /\ callerIndex = targetTree
            \* a run killed before its cleanup leaves the directory and the
            \* registration behind; a failed prune leaves the registration
            /\ \E left \in IF n = 0 THEN {<<FALSE, FALSE>>}
                            ELSE {<<FALSE, FALSE>>, <<TRUE, TRUE>>, <<FALSE, TRUE>>} :
                  /\ workdir = left[1]
                  /\ registered = left[2]
    /\ wtTree = EmptyTree
    /\ index = EmptyTree
    /\ diff = -1
    /\ before = [head |-> head, localTip |-> localTip, remoteTip |-> remoteTip,
                 ncommits |-> Len(commits), targetTree |-> targetTree,
                 callerIndex |-> callerIndex,
                 workdir |-> workdir, registered |-> registered]
    /\ generated = EmptyTree

(***************************************************************************)
(* Upgrade.upgrade, one action per statement that can fail or branch       *)
(***************************************************************************)
\* an exception raised before the try block reaches run's handlers directly
RaiseOutside(e) ==
    /\ exc' = e
    /\ pc' = "except"

\* an exception raised inside the try block runs the finally clause first
RaiseInside(e) ==
    /\ exc' = e
    /\ pc' = "finally_rmtree"

\* lines 326-328
Start ==
    /\ pc = "start"
    /\ IF ~args.template /\ ~args.hasRecord
       THEN /\ out' = out \cup {"not generated from a template"}
            /\ status' = 1
            /\ pc' = "done"
       ELSE /\ pc' = "verify_head"
            /\ UNCHANGED <<out, status>>
    /\ UNCHANGED <<exc, trace, args, before, generated, diff, commits, head,
                   localTip, remoteTip, workdir, registered, wtTree, index,
                   targetTree, callerIndex, firstref>>

\* a mutant of HeadUnresolved: the exit status of rev-parse is not looked at
HeadUnresolvedIgnored(h) == FALSE

\* line 301-302: git rev-parse -q --verify HEAD exits non-zero
HeadUnresolved(h) == h = 0

\* lines 301-304
VerifyHead ==
    /\ pc = "verify_head"
    /\ Log("rev-parse HEAD")
    /\ IF HeadUnresolved(head)
       THEN /\ out' = out \cup {"No Git repository found"}
            /\ status' = 1
            /\ pc' = "done"
       ELSE /\ pc' = "verify_local"
            /\ UNCHANGED <<out, status>>
    /\ UNCHANGED <<exc, args, before, generated, diff, commits, head, localTip,
                   remoteTip, workdir, registered, wtTree, index, targetTree, callerIndex,
                   firstref>>

\* a mutant of AfterVerifyLocal: an existing local branch is not reused
AfterVerifyLocalNoReuse(tip) == "verify_remote"

\* lines 306-307: an existing local branch ends the bootstrap
AfterVerifyLocal(tip) == IF tip # 0 THEN "toplevel" ELSE "verify_remote"

\* lines 306-307
VerifyLocal ==
    /\ pc = "verify_local"
    /\ Log("rev-parse nagare-template")
    /\ pc' = AfterVerifyLocal(localTip)
    /\ UNCHANGED <<exc, status, out, args, before, generated, diff, commits,
                   head, localTip, remoteTip, workdir, registered, wtTree,
                   index, targetTree, callerIndex, firstref>>

\* line 310: the remote-tracking branch is preferred to the first commit
AfterVerifyRemote(tip) == IF tip # 0 THEN "branch_remote" ELSE "rev_list"

\* line 310
VerifyRemote ==
    /\ pc = "verify_remote"
    /\ Log("rev-parse origin/nagare-template")
    /\ pc' = AfterVerifyRemote(remoteTip)
    /\ UNCHANGED <<exc, status, out, args, before, generated, diff, commits,
                   head, localTip, remoteTip, workdir, registered, wtTree,
                   index, targetTree, callerIndex, firstref>>

\* line 312
BranchFromRemote ==
    /\ pc = "branch_remote"
    /\ Log("branch nagare-template origin/nagare-template")
    /\ \/ /\ localTip' = remoteTip
          /\ pc' = "toplevel"
          /\ UNCHANGED exc
       \/ /\ \E rc \in FailCodes : RaiseOutside(CalledProcessError(rc))
          /\ UNCHANGED localTip
    /\ UNCHANGED <<status, out, args, before, generated, diff, commits, head,
                   remoteTip, workdir, registered, wtTree, index, targetTree, callerIndex,
                   firstref>>

\* a mutant of FirstRef: the branch is started from HEAD
FirstRefIsHead(c) == {c}

\* line 315: git rev-list --max-parents=0 --max-count=1 HEAD
FirstRef(c) == RootsOf(c)

RevList ==
    /\ pc = "rev_list"
    /\ Log("rev-list --max-parents=0 --max-count=1 HEAD")
    /\ \/ /\ \E r \in FirstRef(head) : firstref' = r
          /\ pc' = "branch_root"
          /\ UNCHANGED exc
       \/ /\ \E rc \in FailCodes : RaiseOutside(CalledProcessError(rc))
          /\ UNCHANGED firstref
    /\ UNCHANGED <<status, out, args, before, generated, diff, commits, head,
                   localTip, remoteTip, workdir, registered, wtTree, index,
                   targetTree, callerIndex>>

\* line 316
BranchFromRoot ==
    /\ pc = "branch_root"
    /\ Log("branch nagare-template firstref")
    /\ \/ /\ localTip' = firstref
          /\ pc' = "toplevel"
          /\ UNCHANGED exc
       \/ /\ \E rc \in FailCodes : RaiseOutside(CalledProcessError(rc))
          /\ UNCHANGED localTip
    /\ UNCHANGED <<status, out, args, before, generated, diff, commits, head,
                   remoteTip, workdir, registered, wtTree, index, targetTree, callerIndex,
                   firstref>>

\* lines 333-335
ShowToplevel ==
    /\ pc = "toplevel"
    /\ Log("rev-parse --show-toplevel")
    /\ \/ /\ pc' = "prefix"
          /\ UNCHANGED exc
       \/ \E rc \in FailCodes : RaiseOutside(CalledProcessError(rc))
    /\ UNCHANGED <<status, out, args, before, generated, diff, commits, head,
                   localTip, remoteTip, workdir, registered, wtTree, index,
                   targetTree, callerIndex, firstref>>

\* lines 336-337
ShowPrefix ==
    /\ pc = "prefix"
    /\ Log("rev-parse --show-prefix")
    /\ \/ /\ pc' = "worktree_add"
          /\ UNCHANGED exc
       \/ \E rc \in FailCodes : RaiseOutside(CalledProcessError(rc))
    /\ UNCHANGED <<status, out, args, before, generated, diff, commits, head,
                   localTip, remoteTip, workdir, registered, wtTree, index,
                   targetTree, callerIndex, firstref>>

\* lines 339-344: git refuses a path that already exists or is still registered
WorktreeAdd ==
    /\ pc = "worktree_add"
    /\ Log("worktree add")
    /\ \/ /\ ~workdir /\ ~registered
          /\ workdir' = TRUE
          /\ registered' = TRUE
          /\ wtTree' = IF args.relative THEN TreeOf(localTip) ELSE EmptyTree
          /\ index' = IF args.relative THEN TreeOf(localTip) ELSE EmptyTree
          /\ pc' = "read_inherited"
          /\ UNCHANGED exc
       \/ /\ \E rc \in FailCodes : RaiseOutside(CalledProcessError(rc))
          /\ UNCHANGED <<workdir, registered, wtTree, index>>
    /\ UNCHANGED <<status, out, args, before, generated, diff, commits, head,
                   localTip, remoteTip, targetTree, callerIndex, firstref>>

\* line 351
ReadInherited ==
    /\ pc = "read_inherited"
    /\ Log("read inherited context")
    /\ \/ /\ pc' = "read_record"
          /\ UNCHANGED exc
       \/ RaiseInside(OtherError)
    /\ UNCHANGED <<status, out, args, before, generated, diff, commits, head,
                   localTip, remoteTip, workdir, registered, wtTree, index,
                   targetTree, callerIndex, firstref>>

\* lines 353-355: open() raises when the target holds no record
ReadRecord ==
    /\ pc = "read_record"
    /\ Log("read record")
    /\ \/ /\ args.hasRecord
          /\ pc' = "determine_repo_dir"
          /\ UNCHANGED exc
       \/ RaiseInside(OtherError)
    /\ UNCHANGED <<status, out, args, before, generated, diff, commits, head,
                   localTip, remoteTip, workdir, registered, wtTree, index,
                   targetTree, callerIndex, firstref>>

\* lines 357-358
DetermineRepoDir ==
    /\ pc = "determine_repo_dir"
    /\ Log("determine_repo_dir")
    /\ \/ /\ pc' = "remove_dest"
          /\ UNCHANGED exc
       \/ RaiseInside(OtherError)
    /\ UNCHANGED <<status, out, args, before, generated, diff, commits, head,
                   localTip, remoteTip, workdir, registered, wtTree, index,
                   targetTree, callerIndex, firstref>>

\* lines 360-365: rmtree(dest_directory, True) swallows its own failures
RemoveDest ==
    /\ pc = "remove_dest"
    /\ IF args.relative
       THEN /\ Log("rmtree dest_directory")
            /\ wtTree' \in {EmptyTree, wtTree}
       ELSE UNCHANGED <<trace, wtTree>>
    /\ pc' = "create_project"
    /\ UNCHANGED <<exc, status, out, args, before, generated, diff, commits,
                   head, localTip, remoteTip, workdir, registered, index,
                   targetTree, callerIndex, firstref>>

\* a mutant of CreateProject: the project is regenerated in the target
\* directory itself
CreateProjectInPlace ==
    /\ pc = "create_project"
    /\ Log("create_project")
    /\ \/ /\ \E rendered \in Trees : targetTree' = Overlay(targetTree, rendered)
          /\ generated' = targetTree'
          /\ UNCHANGED wtTree
          /\ pc' = "git_add"
          /\ UNCHANGED exc
       \/ /\ RaiseInside(OtherError)
          /\ UNCHANGED <<wtTree, generated, targetTree>>
    /\ UNCHANGED <<status, out, args, before, diff, commits, head, localTip,
                   remoteTip, workdir, registered, index, callerIndex, firstref>>


\* lines 368-370: the rendering engine writes the regenerated files, the
\* record included, into the isolated working copy
CreateProject ==
    /\ pc = "create_project"
    /\ Log("create_project")
    /\ \/ /\ \E rendered \in Trees : wtTree' = Overlay(wtTree, rendered)
          /\ generated' = wtTree'
          /\ pc' = "git_add"
          /\ UNCHANGED exc
       \/ /\ RaiseInside(OtherError)
          /\ UNCHANGED <<wtTree, generated>>
    /\ UNCHANGED <<status, out, args, before, diff, commits, head, localTip,
                   remoteTip, workdir, registered, index, targetTree, callerIndex, firstref>>

\* line 375
GitAdd ==
    /\ pc = "git_add"
    /\ Log("add -A .")
    /\ \/ /\ index' = wtTree
          /\ pc' = IF args.ignore # {} THEN "ignore_reset" ELSE "diff_index"
          /\ UNCHANGED exc
       \/ /\ \E rc \in FailCodes : RaiseInside(CalledProcessError(rc))
          /\ UNCHANGED index
    /\ UNCHANGED <<status, out, args, before, generated, diff, commits, head,
                   localTip, remoteTip, workdir, registered, wtTree,
                   targetTree, callerIndex, firstref>>

IgnoredFiles == UNION args.ignore

\* line 378: git reset HEAD <patterns>
IgnoreReset ==
    /\ pc = "ignore_reset"
    /\ Log("reset HEAD ignore")
    /\ \/ /\ index' = [f \in Files |->
                         IF f \in IgnoredFiles THEN TreeOf(localTip)[f] ELSE index[f]]
          /\ pc' = "ignore_checkout"
          /\ UNCHANGED exc
       \/ /\ \E rc \in FailCodes : RaiseInside(CalledProcessError(rc))
          /\ UNCHANGED index
    /\ UNCHANGED <<status, out, args, before, generated, diff, commits, head,
                   localTip, remoteTip, workdir, registered, wtTree,
                   targetTree, callerIndex, firstref>>

\* git checkout fails when one of its path patterns matches nothing in the index
PathspecsMatch(idx, patterns) == \A p \in patterns : \E f \in p : idx[f] # 0

\* line 379: git checkout <patterns>
IgnoreCheckout ==
    /\ pc = "ignore_checkout"
    /\ Log("checkout ignore")
    /\ \/ /\ PathspecsMatch(index, args.ignore)
          /\ wtTree' = [f \in Files |->
                          IF f \in IgnoredFiles /\ index[f] # 0 THEN index[f] ELSE wtTree[f]]
          /\ pc' = "diff_index"
          /\ UNCHANGED exc
       \/ /\ \E rc \in FailCodes : RaiseInside(CalledProcessError(rc))
          /\ UNCHANGED wtTree
    /\ UNCHANGED <<status, out, args, before, generated, diff, commits, head,
                   localTip, remoteTip, workdir, registered, index, targetTree, callerIndex,
                   firstref>>

DiffIndexAlwaysCommit ==
    /\ pc = "diff_index"
    /\ Log("diff-index --quiet HEAD")
    /\ diff' = DiffIndexStatus(localTip, index, wtTree)
    /\ pc' = "commit"
    /\ UNCHANGED <<exc, status, out, args, before, generated, commits, head, localTip,
                   remoteTip, workdir, registered, wtTree, index, targetTree, callerIndex, firstref>>

\* lines 381-383
DiffIndex ==
    /\ pc = "diff_index"
    /\ Log("diff-index --quiet HEAD")
    /\ diff' = DiffIndexStatus(localTip, index, wtTree)
    /\ IF diff' = 0
       THEN /\ out' = out \cup {"No changes found"}
            /\ pc' = "finally_rmtree"
       ELSE /\ pc' = "commit"
            /\ UNCHANGED out
    /\ UNCHANGED <<exc, status, args, before, generated, commits, head,
                   localTip, remoteTip, workdir, registered, wtTree, index,
                   targetTree, callerIndex, firstref>>

\* lines 384-390
Commit ==
    /\ pc = "commit"
    /\ Log("commit")
    /\ \/ /\ commits' = Append(commits, [parents |-> {localTip}, tree |-> index])
          /\ localTip' = Len(commits) + 1
          /\ IF args.merge
             THEN /\ pc' = "merge"
                  /\ UNCHANGED out
             ELSE /\ pc' = "finally_rmtree"
                  /\ out' = out \cup {"Manual merge needed"}
          /\ UNCHANGED exc
       \/ /\ \E rc \in FailCodes : RaiseInside(CalledProcessError(rc))
          /\ UNCHANGED <<commits, localTip, out>>
    /\ UNCHANGED <<status, args, before, generated, diff, head, remoteTip, workdir,
                   registered, wtTree, index, targetTree, callerIndex, firstref>>

\* lines 392-397: git merge of the template branch in the caller's checkout
GitMerge ==
    /\ pc = "merge"
    /\ Log("merge")
    /\ LET merged == Merge3(TreeOf(MergeBase(head, localTip)), TreeOf(head), TreeOf(localTip))
       IN  \/ /\ head \in AncestorsOf(localTip)
              /\ head' = localTip
              /\ targetTree' = TreeOf(localTip)
              /\ callerIndex' = TreeOf(localTip)
              /\ pc' = "finally_rmtree"
              /\ UNCHANGED <<commits, exc>>
           \/ /\ head \notin AncestorsOf(localTip)
              /\ ~Conflicts(merged)
              /\ commits' = Append(commits, [parents |-> {head, localTip}, tree |-> merged])
              /\ head' = Len(commits) + 1
              /\ targetTree' = merged
              /\ callerIndex' = merged
              /\ pc' = "finally_rmtree"
              /\ UNCHANGED exc
           \/ /\ head \notin AncestorsOf(localTip)
              /\ Conflicts(merged)
              /\ targetTree' = merged
              /\ callerIndex' = merged
              /\ RaiseInside(CalledProcessError(1))
              /\ UNCHANGED <<commits, head>>
           \/ /\ \E rc \in FailCodes : RaiseInside(CalledProcessError(rc))
              /\ UNCHANGED <<commits, head, targetTree, callerIndex>>
    /\ UNCHANGED <<status, out, args, before, generated, diff, localTip,
                   remoteTip, workdir, registered, wtTree, index, firstref>>

\* line 399: shutil.rmtree(git_directory) raises when the removal fails, and
\* that exception replaces the one in flight
FinallyRmtree ==
    /\ pc = "finally_rmtree"
    /\ Log("rmtree git_directory")
    /\ \/ /\ workdir' = FALSE
          /\ wtTree' = EmptyTree
          /\ index' = EmptyTree
          /\ pc' = "finally_prune"
          /\ UNCHANGED exc
       \/ /\ exc' = OtherError
          /\ pc' = "except"
          /\ UNCHANGED <<workdir, wtTree, index>>
    /\ UNCHANGED <<status, out, args, before, generated, diff, commits, head,
                   localTip, remoteTip, registered, targetTree, callerIndex, firstref>>

\* line 400: the exit status of git worktree prune is not checked
FinallyPrune ==
    /\ pc = "finally_prune"
    /\ Log("worktree prune")
    /\ \/ registered' = (registered /\ workdir)
       \/ UNCHANGED registered
    /\ pc' = IF exc = NoExc THEN "return" ELSE "except"
    /\ UNCHANGED <<exc, status, out, args, before, generated, diff, commits,
                   head, localTip, remoteTip, workdir, wtTree, index,
                   targetTree, callerIndex, firstref>>

\* line 402, then line 419
Return ==
    /\ pc = "return"
    /\ status' = 0
    /\ pc' = "done"
    /\ UNCHANGED <<exc, out, trace, args, before, generated, diff, commits,
                   head, localTip, remoteTip, workdir, registered, wtTree,
                   index, targetTree, callerIndex, firstref>>

\* lines 407-419: the handlers of Upgrade.run
ExceptStatus(e) == IF e.type = "CalledProcessError" THEN e.rc ELSE 1

Except ==
    /\ pc = "except"
    /\ status' = ExceptStatus(exc)
    /\ out' = out \cup {"error logged"}
    /\ pc' = "done"
    /\ UNCHANGED <<exc, trace, args, before, generated, diff, commits, head,
                   localTip, remoteTip, workdir, registered, wtTree, index,
                   targetTree, callerIndex, firstref>>

Next ==
    /\ UNCHANGED <<rvars, cvars, kvars, dvars, ivars>>
    /\ \/ Start
       \/ VerifyHead
       \/ VerifyLocal
       \/ VerifyRemote
       \/ BranchFromRemote
       \/ RevList
       \/ BranchFromRoot
       \/ ShowToplevel
       \/ ShowPrefix
       \/ WorktreeAdd
       \/ ReadInherited
       \/ ReadRecord
       \/ DetermineRepoDir
       \/ RemoveDest
       \/ CreateProject
       \/ GitAdd
       \/ IgnoreReset
       \/ IgnoreCheckout
       \/ DiffIndex
       \/ Commit
       \/ GitMerge
       \/ FinallyRmtree
       \/ FinallyPrune
       \/ Return
       \/ Except

Spec == Init /\ [][Next]_vars

(***************************************************************************)
(* Properties of Upgrade.upgrade and Upgrade.run                           *)
(***************************************************************************)
Did(step) == \E i \in 1..Len(trace) : trace[i] = step

Finished == pc = "done"

\* create_template_branch returned True: line 333 was reached
BootstrapDone == Did("rev-parse --show-toplevel")

\* the commit step of this run created a commit on the template branch
CommitDone == Did("commit") /\ localTip > before.ncommits

\* the merge step of this run brought the template branch into the main line
MergeDone == Did("merge") /\ CommitDone /\ localTip \in AncestorsOf(head)

\* every step up to commit/merge, or the no-changes short-circuit, succeeded
BodySucceeded ==
    \/ diff = 0
    \/ CommitDone /\ ~args.merge
    \/ MergeDone

CleanupRan == Did("rmtree git_directory")

\* C1: every run that reaches the attach step executes the cleanup (removal
\* of the working copy's directory, then prune) before it ends, and ends
\* with no isolated working copy on disk.
C1_CleanupOnEveryExit ==
    (Finished /\ Did("worktree add")) =>
        (CleanupRan /\ Did("worktree prune") /\ ~workdir)

\* C2: when the body of the upgrade succeeded, a failure inside the cleanup
\* leaves the status returned by run at 0.
C2_CleanupFailureKeepsStatus ==
    (Finished /\ BodySucceeded) => status = 0

\* C3: a run whose staged tree equals the template branch tip reports
\* "No changes found", commits nothing, merges nothing, leaves the tip where
\* it was and returns 0.
C3_NoChangesIsSuccess ==
    (Finished /\ diff = 0) =>
        /\ "No changes found" \in out
        /\ ~Did("commit")
        /\ ~Did("merge")
        /\ Len(commits) = before.ncommits
        /\ (before.localTip # 0 => localTip = before.localTip)
        /\ status = 0

\* the first upgrade ever made the branch: neither a local nor a remote
\* template branch existed, and the bootstrap created one
FirstBootstrap ==
    /\ before.localTip = 0
    /\ before.remoteTip = 0
    /\ localTip # 0
    /\ ~CommitDone

\* C4 as stated: the branch made by the first bootstrap points at the root
\* commit and never at HEAD.
C4_RootNeverHead ==
    FirstBootstrap =>
        /\ commits[localTip].parents = {}
        /\ localTip \in AncestorsOf(before.head)
        /\ localTip # before.head

\* C4 amended: the branch made by the first bootstrap points at a parentless
\* commit reachable from HEAD, hence at an ancestor of the main line; it is
\* HEAD itself exactly when HEAD has no parent (a one-commit repository).
C4_RootIsAncestor ==
    FirstBootstrap =>
        /\ commits[localTip].parents = {}
        /\ localTip \in AncestorsOf(before.head)
        /\ (localTip = before.head <=> commits[before.head].parents = {})

C4_Witness ==
    /\ FirstBootstrap
    /\ before.ncommits >= 2
    /\ Did("branch nagare-template firstref")
    /\ localTip # head

\* C5: bootstrap reuses an existing local branch without moving it and
\* without looking at the remote; failing that it creates the branch at the
\* remote tip; failing that at the root commit; after a successful bootstrap
\* the local branch exists.
C5_BootstrapPriority ==
    BootstrapDone =>
        /\ localTip # 0
        /\ ~CommitDone =>
            /\ before.localTip # 0 =>
                /\ localTip = before.localTip
                /\ ~Did("rev-parse origin/nagare-template")
                /\ ~Did("branch nagare-template origin/nagare-template")
                /\ ~Did("branch nagare-template firstref")
            /\ (before.localTip = 0 /\ before.remoteTip # 0) =>
                /\ localTip = before.remoteTip
                /\ Did("branch nagare-template origin/nagare-template")
                /\ ~Did("rev-list --max-parents=0 --max-count=1 HEAD")
            /\ (before.localTip = 0 /\ before.remoteTip = 0) =>
                /\ localTip \in RootsOf(before.head)
                /\ Did("branch nagare-template firstref")

C5_Witness ==
    /\ BootstrapDone
    /\ before.localTip # 0
    /\ before.remoteTip # 0
    /\ before.remoteTip # before.localTip
    /\ localTip = before.localTip

\* C6: a target without a resolvable HEAD makes run report the failure and
\* return a non-zero status, with no exception, no template branch, no
\* isolated working copy and no change to the files of the target.
C6_NoRepositoryNoEffect ==
    before.head = 0 =>
        /\ localTip = 0
        /\ commits = <<>>
        /\ ~workdir
        /\ ~registered
        /\ targetTree = before.targetTree
        /\ exc = NoExc
        /\ \A i \in 1..Len(trace) : trace[i] = "rev-parse HEAD"
        /\ Finished =>
            /\ status = 1
            /\ \/ "No Git repository found" \in out
               \/ "not generated from a template" \in out

C6_Witness ==
    /\ Finished
    /\ before.head = 0
    /\ Did("rev-parse HEAD")
    /\ "No Git repository found" \in out

\* C7: with merging suppressed and a regenerated tree that differs from the
\* tip, the run adds exactly one commit to the template branch, runs no
\* merge, leaves the main line where it was, says that a manual merge is
\* needed and returns 0.
C7_NoMergeIsSuccess ==
    (Finished /\ ~args.merge /\ diff = 1 /\ CommitDone) =>
        /\ Len(commits) = before.ncommits + 1
        /\ localTip = Len(commits)
        /\ Cardinality(commits[localTip].parents) = 1
        /\ \A c \in commits[localTip].parents : c <= before.ncommits
        /\ ~Did("merge")
        /\ head = before.head
        /\ targetTree = before.targetTree
        /\ "Manual merge needed" \in out
        /\ status = 0

\* a run killed before its cleanup left the working copy's directory and its
\* registration behind
StaleLeftover == before.workdir /\ before.registered

\* the attach step succeeded and the run went on to regeneration
AttachSucceeded == Did("worktree add") /\ Did("read inherited context")

\* C15: a run that finds the leftover of a killed run and reaches the attach
\* step attaches the working copy and proceeds to regeneration.
C15_StaleLeftoverReplaced ==
    (Finished /\ StaleLeftover /\ Did("worktree add")) => AttachSucceeded

\* the removal of the working copy's directory raised in the finally block
RmtreeFailed == CleanupRan /\ workdir /\ ~Did("worktree prune")

\* C16: run returns 0 exactly when the operation completed (no changes, a
\* commit with the merge deferred, or a merge); every failure gives a
\* non-zero status and no exception leaves run.
C16_StatusReflectsOutcome ==
    /\ Finished => (status = 0 <=> BodySucceeded)
    /\ Finished => status \in {0} \cup FailCodes

\* the tip of the template branch the regenerated tree is compared with
BaseTip ==
    IF CommitDone THEN CHOOSE c \in commits[localTip].parents : TRUE ELSE localTip

\* the paths the regeneration modified, added or removed
ChangedFiles == {f \in Files : generated[f] # TreeOf(BaseTip)[f]}

\* the regeneration changed something, and only paths the patterns match
OnlyIgnoredChanged ==
    /\ Did("add -A .")
    /\ args.ignore # {}
    /\ ChangedFiles # {}
    /\ ChangedFiles \subseteq IgnoredFiles
    /\ \A f \in ChangedFiles : generated[f] # 0

\* C17: when the only paths the regeneration modified or added match the
\* --ignore patterns, they are unstaged and restored before the change
\* detection, and the run reports no changes, commits nothing and returns 0.
C17_IgnoredChangesAreNoChanges ==
    (Finished /\ OnlyIgnoredChanged /\ Did("checkout ignore")) =>
        /\ Did("diff-index --quiet HEAD")
        /\ diff = 0
        /\ "No changes found" \in out
        /\ ~Did("commit")
        /\ status = 0

\* the steps of Upgrade.upgrade in program order, phase by phase
StepOrder ==
    << \* preflight
       "rev-parse HEAD",
       \* branch bootstrap
       "rev-parse nagare-template", "rev-parse origin/nagare-template",
       "branch nagare-template origin/nagare-template",
       "rev-list --max-parents=0 --max-count=1 HEAD",
       "branch nagare-template firstref",
       \* working-copy attach
       "rev-parse --show-toplevel", "rev-parse --show-prefix", "worktree add",
       \* regenerate
       "read inherited context", "read record", "determine_repo_dir",
       "rmtree dest_directory", "create_project",
       \* stage
       "add -A .", "reset HEAD ignore", "checkout ignore",
       \* change detection, commit, merge
       "diff-index --quiet HEAD", "commit", "merge",
       \* cleanup
       "rmtree git_directory", "worktree prune" >>

\* rank of a step in the program order
Rank ==
    [step \in {StepOrder[r] : r \in 1..Len(StepOrder)} |->
        CHOOSE r \in 1..Len(StepOrder) : StepOrder[r] = step]

\* C20: the steps of a run follow the order preflight, bootstrap, attach,
\* regenerate, stage, change detection, commit, merge, cleanup, each step
\* running at most once; a commit follows the staging and a change detection
\* that reported a difference; a merge follows a commit made in the run and
\* is requested; the cleanup follows the merge attempt and only the prune
\* follows the removal of the working copy.
C20_StepOrder ==
    /\ \A i \in 1..(Len(trace) - 1) : Rank[trace[i]] < Rank[trace[i + 1]]
    /\ Did("commit") =>
           /\ diff = 1
           /\ Did("add -A .")
           /\ Did("diff-index --quiet HEAD")
    /\ Did("merge") =>
           /\ args.merge
           /\ CommitDone
    /\ (Finished /\ Did("merge")) => Did("rmtree git_directory")

\* a run that committed, attempted the merge and cleaned up
C20_Witness ==
    /\ Finished
    /\ Did("merge")
    /\ Did("worktree prune")
    /\ CommitDone

(***************************************************************************)
(* Provenance record: Command.create_project and its reading by upgrade    *)
(***************************************************************************)
Values == 1..MaxValue

\* the keys of the model, in the order json.dump(sort_keys=True) writes them
KeyOrder == <<"_cur_dir", "_output_dir", "_priv", "_template", "_upgrade", "a", "b">>
Keys == {KeyOrder[i] : i \in 1..Len(KeyOrder)}

StartsWithUnderscoreNever(k) == FALSE

\* str.startswith('_')
StartsWithUnderscore(k) == k \in {"_cur_dir", "_output_dir", "_priv", "_template", "_upgrade"}

\* the keys create_project adds at render time
RenderKeys == {"_upgrade", "_output_dir", "_cur_dir"}

\* lines 148-150: dict(context, _upgrade=..., _output_dir=..., _cur_dir=...)
RenderContext(ctx) ==
    DictUpdate(ctx, [k \in RenderKeys |-> 0])

\* line 160: set(context) - set(inherited_context), without the '_' keys
KeptKeys(ctx, inh) ==
    {k \in (DOMAIN ctx) \ (DOMAIN inh) : ~StartsWithUnderscore(k)}

\* lines 160-161: the mapping handed to json.dump
StoredRecord(tmpl, ctx, inh) ==
    DictUpdate([k \in KeptKeys(ctx, inh) |-> ctx[k]],
               [k \in {"_template"} |-> tmpl])

\* line 162: json.dump(..., sort_keys=True), the document as its sorted members
JsonDump(d) ==
    LET present == SelectSeq(KeyOrder, LAMBDA k : k \in DOMAIN d)
    IN  [i \in 1..Len(present) |-> <<present[i], d[present[i]]>>]

\* json.load: members to mapping, a later member overriding an earlier one
JsonLoad(doc) ==
    LET names == {doc[i][1] : i \in 1..Len(doc)}
    IN  [k \in names |->
            doc[CHOOSE i \in 1..Len(doc) :
                    /\ doc[i][1] = k
                    /\ \A j \in 1..Len(doc) : doc[j][1] = k => j <= i][2]]

\* lines 353-355: context = inherited_context.copy(); context.update(json.load(f))
UpgradeContext(inh, doc) == DictUpdate(inh, JsonLoad(doc))

\* the contexts of the scenarios: user parameters and the '_template' key
\* that a context rebuilt from earlier records carries
ScenarioKeys == {"a", "b", "_template"}

\* the parameters a template may declare when the project is upgraded: one
\* the contexts may know and one that no earlier version declared
DeclaredKeys == {"b", "c"}

InitRecord ==
    /\ UpgradeIdle
    /\ ChainIdle
    /\ CreateIdle
    /\ DestIdle
    /\ InheritIdle
    /\ pstep = "create"
    /\ template \in Values
    /\ context \in Dicts(ScenarioKeys, Values)
    /\ inherited \in Dicts(ScenarioKeys, Values)
    /\ record = <<>>
    /\ loaded = EmptyDict
    /\ declared \in Dicts(DeclaredKeys, Values)
    /\ override \in {0, 1}
    /\ handed = EmptyDict
    /\ rewritten = <<>>

\* lines 146-165, the rendering engine having succeeded
CreateProjectRecord ==
    /\ pstep = "create"
    /\ record' = JsonDump(StoredRecord(template, RenderContext(context), inherited))
    /\ pstep' = "created"
    /\ UNCHANGED <<template, context, inherited, loaded>>
    /\ UNCHANGED <<declared, override, handed, rewritten>>

\* lines 351-355, for the same inherited context
UpgradeLoad ==
    /\ pstep = "created"
    /\ loaded' = UpgradeContext(inherited, record)
    /\ pstep' = "loaded"
    /\ UNCHANGED <<template, context, inherited, record>>
    /\ UNCHANGED <<declared, override, handed, rewritten>>

\* line 357: template = template or context['_template']
UpgradeTemplate(given, ctx) == IF given # 0 THEN given ELSE ctx["_template"]

\* lines 357-370: upgrade hands the context it rebuilt to create_project,
\* which renders with it (148-157) and writes the record of the regenerated
\* project (159-162); the parameters the template declares are not read
UpgradeCreateProject ==
    /\ pstep = "loaded"
    /\ handed' = RenderContext(loaded)
    /\ rewritten' = JsonDump(StoredRecord(UpgradeTemplate(override, loaded),
                                          RenderContext(loaded), inherited))
    /\ pstep' = "upgraded"
    /\ UNCHANGED <<template, context, inherited, record, loaded>>
    /\ UNCHANGED <<declared, override>>

NextRecord ==
    /\ UNCHANGED <<uvars, cvars, kvars, dvars, ivars>>
    /\ \/ CreateProjectRecord
       \/ UpgradeLoad
       \/ UpgradeCreateProject

SpecRecord == InitRecord /\ [][NextRecord]_vars

\* C8: the record holds the value-level difference context - inherited: a
\* non-reserved key of the context is stored exactly when the inherited
\* context lacks it or gives it another value.
C8_ValueLevelDifference ==
    pstep \in {"created", "loaded", "upgraded"} =>
        \A k \in DOMAIN context :
            ~StartsWithUnderscore(k) =>
                /\ k \in DOMAIN JsonLoad(record) <=>
                       (k \notin DOMAIN inherited \/ inherited[k] # context[k])
                /\ k \in DOMAIN JsonLoad(record) => JsonLoad(record)[k] = context[k]

\* C9: the record read back and merged over the inherited context gives
\* every non-reserved key of the context its value.
C9_RoundTrip ==
    pstep \in {"loaded", "upgraded"} =>
        \A k \in DOMAIN context :
            ~StartsWithUnderscore(k) =>
                /\ k \in DOMAIN loaded
                /\ loaded[k] = context[k]

\* a written record holds the reference tmpl and no render-time key
WellFormedRecord(doc, tmpl) ==
    /\ "_template" \in DOMAIN JsonLoad(doc)
    /\ JsonLoad(doc)["_template"] = tmpl
    /\ RenderKeys \cap DOMAIN JsonLoad(doc) = {}
    /\ \A i, j \in 1..Len(doc) : doc[i][1] = doc[j][1] => i = j

\* C11: every record written, by create or by upgrade, holds the template
\* reference under '_template' and none of '_output_dir', '_cur_dir',
\* '_upgrade', whatever the context and the inherited context carry.
C11_RecordKeys ==
    /\ pstep \in {"created", "loaded", "upgraded"} =>
           WellFormedRecord(record, template)
    /\ pstep = "upgraded" =>
           WellFormedRecord(rewritten, UpgradeTemplate(override, loaded))

\* an upgrade wrote its record from contexts that carry reserved keys
C11_Witness ==
    /\ pstep = "upgraded"
    /\ "_template" \in DOMAIN context
    /\ "_template" \in DOMAIN inherited
    /\ override = 0
    /\ Len(rewritten) > 1

\* C14: a parameter the template declares and the stored record lacks reaches
\* the rendering engine with its declared default, and every recorded
\* parameter with its recorded value.
C14_NewParameterDefault ==
    pstep = "upgraded" =>
        /\ \A k \in DOMAIN declared :
               k \notin DOMAIN loaded =>
                   k \in DOMAIN handed /\ handed[k] = declared[k]
        /\ \A k \in DOMAIN JsonLoad(record) :
               ~StartsWithUnderscore(k) => handed[k] = JsonLoad(record)[k]

\* what upgrade does hand over: the rebuilt context and the render-time keys
UpgradeHandsRebuiltContext ==
    pstep = "upgraded" =>
        /\ DOMAIN handed = DOMAIN loaded \cup RenderKeys
        /\ \A k \in DOMAIN loaded \ RenderKeys : handed[k] = loaded[k]

(***************************************************************************)
(* Provenance chain: Command.retreive_inherited_context                    *)
(***************************************************************************)
\* path components: one directory name and the parent link
Components == {"a", ".."}

RECURSIVE SeqsUpTo(_, _)
\* the sequences over s of length at most n
SeqsUpTo(s, n) ==
    IF n = 0 THEN {<<>>}
    ELSE LET shorter == SeqsUpTo(s, n - 1)
         IN  shorter \cup {Append(q, x) : q \in shorter, x \in s}

\* the directories of the file system, as absolute paths without ".."
Dirs == SeqsUpTo({"a"}, MaxDepth)

NoRecord == [missing |-> TRUE]

\* the records a directory may hold
RecordChoices == {NoRecord, [a |-> 1], [a |-> 2], [b |-> 1]}

RECURSIVE Resolve(_)
\* the directory a path names, as the operating system follows it
Resolve(p) ==
    IF p = <<>> THEN <<>>
    ELSE LET r == Resolve(SubSeq(p, 1, Len(p) - 1))
             last == p[Len(p)]
         IN  IF last = ".."
             THEN IF r = <<>> THEN <<>> ELSE SubSeq(r, 1, Len(r) - 1)
             ELSE Append(r, last)

\* line 124: pathlib.Path(output_dir).absolute() prefixes the current
\* directory to a relative path and leaves ".." components in place
Absolute(dir, path) == IF path.absolute THEN path.parts ELSE dir \o path.parts

\* line 124: Path.parents, the proper prefixes from the nearest to the root
Parents(p) == [i \in 1..Len(p) |-> SubSeq(p, 1, Len(p) - i)]

\* line 124: reversed(...)
Reversed(q) == [i \in 1..Len(q) |-> q[Len(q) + 1 - i]]

\* line 126: template_config_filename.is_file()
IsFile(files, p) == Resolve(p) \in DOMAIN files /\ files[Resolve(p)] # NoRecord

RECURSIVE UpdateAll(_, _, _)
\* lines 123-128: the loop, acc being the context built so far
UpdateAll(files, paths, acc) ==
    IF paths = <<>> THEN acc
    ELSE UpdateAll(files, Tail(paths),
                   IF IsFile(files, Head(paths))
                   THEN DictUpdate(acc, files[Resolve(Head(paths))])
                   ELSE acc)

\* lines 121-130
retreive_inherited_context(files, dir, path) ==
    UpdateAll(files, Reversed(Parents(Absolute(dir, path))), EmptyDict)

\* every lexical prefix of the path names a directory of the file system,
\* and no ".." is applied to the root
Walkable(dir, path) ==
    LET p == Absolute(dir, path)
    IN  /\ \A i \in 0..Len(p) : Resolve(SubSeq(p, 1, i)) \in Dirs
        /\ \A i \in 1..Len(p) : p[i] = ".." => Resolve(SubSeq(p, 1, i - 1)) # <<>>

InitChain ==
    /\ UpgradeIdle
    /\ CreateIdle
    /\ DestIdle
    /\ InheritIdle
    /\ pstep = "chain"
    /\ template = 0
    /\ context = EmptyDict
    /\ inherited = EmptyDict
    /\ record = <<>>
    /\ loaded = EmptyDict
    /\ declared = EmptyDict
    /\ override = 0
    /\ handed = EmptyDict
    /\ rewritten = <<>>
    /\ fs \in [Dirs -> RecordChoices]
    /\ cwd \in Dirs
    /\ output_dir \in [absolute : BOOLEAN, parts : SeqsUpTo(Components, 2)]
    /\ Walkable(cwd, output_dir)
    /\ chain = EmptyDict

\* lines 121-130, called on output_dir
RetrieveInherited ==
    /\ pstep = "chain"
    /\ chain' = retreive_inherited_context(fs, cwd, output_dir)
    /\ pstep' = "chained"
    /\ UNCHANGED <<fs, cwd, output_dir>>
    /\ UNCHANGED <<template, context, inherited, record, loaded>>
    /\ UNCHANGED <<declared, override, handed, rewritten>>

NextChain ==
    /\ UNCHANGED <<uvars, kvars, dvars, ivars>>
    /\ RetrieveInherited

SpecChain == InitChain /\ [][NextChain]_vars

\* the directory output_dir names
TargetDir == Resolve(Absolute(cwd, output_dir))

\* the strict ancestor of d at depth i
Ancestor(d, i) == SubSeq(d, 1, i)

\* the depths of the strict ancestors of d whose record has key k
Holders(files, d, k) ==
    {i \in 0..(Len(d) - 1) :
        files[Ancestor(d, i)] # NoRecord /\ k \in DOMAIN files[Ancestor(d, i)]}

\* the merge of the strict ancestors' records, the nearest ancestor winning
AncestorMerge(files, d) ==
    [k \in {x \in Keys : Holders(files, d, x) # {}} |->
        LET nearest == CHOOSE i \in Holders(files, d, k) :
                           \A j \in Holders(files, d, k) : j <= i
        IN  files[Ancestor(d, nearest)][k]]

\* C10: the inherited context of a directory is the merge of the records of
\* its strict ancestors from the root down to its parent, the nearest
\* ancestor winning; its own record is left out, ancestors without a record
\* are skipped, and the result is empty when no ancestor has a record.
C10_ChainIsAncestorMerge ==
    pstep = "chained" => chain = AncestorMerge(fs, TargetDir)

(***************************************************************************)
(* Create: Create._run, Create.run, Create.create, Command.create_project  *)
(* and the create command of app_create                                    *)
(***************************************************************************)
\* line 30: NAGARE_TEMPLATES_REPOSITORY without its '#{0}'
TemplatesLocation == "//github.com/nagareproject/templates.git"

\* the references a user types: an alias of the user's configuration, the
\* 'nt:' abbreviation, URLs with and without a sub-path, a local directory
TypedRefs ==
    { Ref("", "my", ""), Ref("nt", "app", ""), Ref("", "dir", ""),
      Ref("https", TemplatesLocation, "app"),
      Ref("https", "//host/repo.git", ""),
      Ref("https", "//host/repo.git", "sub"),
      Ref("https", "//host/repo.git", "/sub/") }

\* lines 96-98: the abbreviations of create; those of app create (its line
\* 151) lack 'nt'. The user's configuration defines my = 'nt:app'.
CreateAbbreviations == {"my", "nt"}
AppAbbreviations == {"my"}

\* cookiecutter.repository.expand_abbreviations: the whole reference is
\* looked up first, then its prefix, whose expansion is formatted with the
\* rest; one lookup, the result is not expanded again
expand_abbreviations(t, abbreviations) ==
    IF t = Ref("", "my", "") /\ "my" \in abbreviations
    THEN Ref("nt", "app", "")
    ELSE IF t.prefix = "nt" /\ "nt" \in abbreviations
    THEN Ref("https", TemplatesLocation, t.body)
    ELSE t

\* str.strip('/') on the fragments of the model
StripSlashes(s) == IF s = "/sub/" THEN "sub" ELSE s

\* lines 74-84: with a scheme the fragment is the path and the rest the
\* repository; without one the repository is '' and the reference the path
split_repo(t) ==
    IF t.prefix # ""
    THEN [repo |-> [t EXCEPT !.fragment = ""], path |-> StripSlashes(t.fragment)]
    ELSE [repo |-> NoRef, path |-> t.body]

\* line 119: (repo + '#' + path).strip('#')
RepoUri(s) ==
    IF s.repo = NoRef THEN Ref("", s.path, "") ELSE [s.repo EXCEPT !.fragment = s.path]

\* main.determine_repo_dir is called with abbreviations={} (line 112): it can
\* find a URL or a local directory, never an alias
Resolvable(s) ==
    \/ s.repo.prefix = "https"
    \/ s.repo = NoRef /\ s.path = "dir"

\* a record left in the project directory by an earlier generation
OldFile ==
    [exists |-> TRUE,
     doc |-> JsonDump(StoredRecord(Ref("https", "//host/old.git", ""),
                                   [k \in {"a", "b"} |-> 1], EmptyDict))]

\* lines 160-162: the document create_project writes
NewDoc == JsonDump(StoredRecord(reference, RenderContext(context), inherited))

KLog(step) == ktrace' = Append(ktrace, step)

\* an exception reaches the handlers of run
KRaise(e) ==
    /\ kexc' = e
    /\ kpc' = "except"

InitCreate ==
    /\ UpgradeIdle
    /\ ChainIdle
    /\ DestIdle
    /\ InheritIdle
    /\ pstep = "idle"
    /\ template = 0
    /\ context \in Dicts({"a", "b"}, Values)
    /\ inherited \in Dicts({"b"}, Values)
    /\ record = <<>>
    /\ loaded = EmptyDict
    /\ declared = EmptyDict
    /\ override = 0
    /\ handed = EmptyDict
    /\ rewritten = <<>>
    /\ impl \in {"create", "app_create"}
    /\ typed \in IF impl = "create" THEN TypedRefs \cup {NoRef} ELSE TypedRefs
    /\ command_names \in IF impl = "create" THEN {1, 2} ELSE {2}
    /\ kpc = IF impl = "create" THEN "_run" ELSE "app_split"
    /\ reentered = FALSE
    /\ reference = typed
    /\ subpath = ""
    /\ repo_uri = NoRef
    /\ clone = "none"
    /\ project = "none"
    /\ file \in {NoFile, OldFile}
    /\ prior = file
    /\ tried = <<>>
    /\ notfound = 0
    /\ kexc = NoExc
    /\ kstatus = -1
    /\ ktrace = <<>>

\* lines 198-222: with a template and several command names the command is
\* executed again with the expanded template; the re-execution (execute, of
\* nagare.admin) parses the arguments and calls _run with one command name
CreateRunArguments ==
    /\ kpc = "_run"
    /\ IF reference # NoRef /\ command_names # 1 /\ ~reentered
       THEN /\ reference' = expand_abbreviations(reference, CreateAbbreviations)
            /\ reentered' = TRUE
            /\ kpc' = "_run"
       ELSE /\ kpc' = "run"
            /\ UNCHANGED <<reference, reentered>>
    /\ UNCHANGED <<impl, typed, command_names, subpath, repo_uri, clone,
                   project, file, prior, tried, notfound, kexc, kstatus,
                   ktrace>>

\* lines 247-252
CreateRun ==
    /\ kpc = "run"
    /\ kpc' = IF reference = NoRef THEN "list" ELSE "determine_repo_dir"
    /\ UNCHANGED <<impl, typed, command_names, reentered, reference, subpath,
                   repo_uri, clone, project, file, prior, tried, notfound,
                   kexc, kstatus, ktrace>>

\* lines 224-232
CreateList ==
    /\ kpc = "list"
    /\ KLog("list")
    /\ kpc' = "return"
    /\ UNCHANGED <<impl, typed, command_names, reentered, reference, subpath,
                   repo_uri, clone, project, file, prior, tried, notfound,
                   kexc, kstatus>>

\* lines 235-237 and 106-119
CreateDetermineRepoDir ==
    /\ kpc = "determine_repo_dir"
    /\ KLog("determine_repo_dir")
    /\ LET s == split_repo(expand_abbreviations(reference, CreateAbbreviations))
       IN  /\ tried' = Append(tried, s)
           /\ \/ /\ Resolvable(s)
                 /\ repo_uri' = RepoUri(s)
                 /\ clone' \in {"kept", "transient"}
                 /\ kpc' = "generate_context"
                 /\ UNCHANGED <<kexc, notfound>>
              \/ /\ KRaise(RepositoryNotFound)
                 /\ notfound' = notfound + 1
                 /\ UNCHANGED <<repo_uri, clone>>
    /\ UNCHANGED <<impl, typed, command_names, reentered, reference, subpath,
                   project, file, prior, kstatus>>

\* lines 239-242: the context of the template, the parameters, the prompts
CreateGenerateContext ==
    /\ kpc = "generate_context"
    /\ KLog("generate_context")
    /\ \/ /\ kpc' = "generate_files"
          /\ UNCHANGED kexc
       \/ KRaise(OtherError)
    /\ UNCHANGED <<impl, typed, command_names, reentered, reference, subpath,
                   repo_uri, clone, project, file, prior, tried, notfound,
                   kstatus>>

ProjectGenerateFilesUnchecked ==
    /\ kpc = "generate_files"
    /\ KLog("generate_files")
    /\ project' \in {"rendered", "failed"}
    /\ kpc' = "open"
    /\ UNCHANGED <<impl, typed, command_names, reentered, reference, subpath,
                   repo_uri, clone, file, prior, tried, notfound, kexc,
                   kstatus>>

\* lines 148-157: the rendering engine
ProjectGenerateFiles ==
    /\ kpc = "generate_files"
    /\ KLog("generate_files")
    /\ \/ /\ project' = "rendered"
          /\ kpc' = "open"
          /\ UNCHANGED kexc
       \/ /\ project' = "failed"
          /\ KRaise(OtherError)
    /\ UNCHANGED <<impl, typed, command_names, reentered, reference, subpath,
                   repo_uri, clone, file, prior, tried, notfound, kstatus>>

\* line 159: open(..., 'w') creates the file or truncates it
ProjectOpen ==
    /\ kpc = "open"
    /\ KLog("open")
    /\ \/ /\ file' = [exists |-> TRUE, doc |-> <<>>]
          /\ kpc' = "dump"
          /\ UNCHANGED kexc
       \/ /\ KRaise(OtherError)
          /\ UNCHANGED file
    /\ UNCHANGED <<impl, typed, command_names, reentered, reference, subpath,
                   repo_uri, clone, project, prior, tried, notfound, kstatus>>

\* lines 160-162: json.dump writes the members one after the other; an
\* error leaves what was written so far
ProjectDump ==
    /\ kpc = "dump"
    /\ KLog("dump")
    /\ \/ /\ file' = [exists |-> TRUE, doc |-> NewDoc]
          /\ kpc' = "cleanup"
          /\ UNCHANGED kexc
       \/ /\ \E n \in 0..(Len(NewDoc) - 1) :
                file' = [exists |-> TRUE, doc |-> SubSeq(NewDoc, 1, n)]
          /\ KRaise(OtherError)
    /\ UNCHANGED <<impl, typed, command_names, reentered, reference, subpath,
                   repo_uri, clone, project, prior, tried, notfound, kstatus>>

\* lines 164-165
ProjectCleanup ==
    /\ kpc = "cleanup"
    /\ IF clone = "transient"
       THEN /\ KLog("rmtree repo_dir")
            /\ \/ /\ clone' = "deleted"
                  /\ kpc' = "return"
                  /\ UNCHANGED kexc
               \/ /\ KRaise(OtherError)
                  /\ UNCHANGED clone
       ELSE /\ kpc' = "return"
            /\ UNCHANGED <<ktrace, clone, kexc>>
    /\ UNCHANGED <<impl, typed, command_names, reentered, reference, subpath,
                   repo_uri, project, file, prior, tried, notfound, kstatus>>

\* app_create lines 151-163: the reference is expanded and, when it has a
\* scheme, split into repository and sub-path; without a scheme it may name
\* a registered template, whose lookup raises when there is none
AppSplit ==
    /\ kpc = "app_split"
    /\ LET t == expand_abbreviations(typed, AppAbbreviations)
       IN  IF t.prefix # ""
           THEN /\ reference' = [t EXCEPT !.fragment = ""]
                /\ subpath' = StripSlashes(t.fragment)
                /\ kpc' = "app_cookiecutter"
                /\ UNCHANGED kexc
           ELSE /\ reference' = t
                /\ subpath' = ""
                /\ \/ /\ kpc' = "app_cookiecutter"
                      /\ UNCHANGED kexc
                   \/ KRaise(OtherError)
    /\ UNCHANGED <<impl, typed, command_names, reentered, repo_uri, clone,
                   project, file, prior, tried, notfound, kstatus, ktrace>>

\* app_create lines 167-173
AppCookiecutter ==
    /\ kpc = "app_cookiecutter"
    /\ KLog("cookiecutter")
    /\ tried' = Append(tried, [repo |-> reference, path |-> ""])
    /\ \/ /\ Resolvable(split_repo(reference))
          /\ kpc' = "return"
          /\ UNCHANGED <<kexc, notfound>>
       \/ /\ kexc' = RepositoryNotFound
          /\ notfound' = notfound + 1
          /\ kpc' = "app_handler"
       \/ /\ KRaise(OtherError)
          /\ UNCHANGED notfound
    /\ UNCHANGED <<impl, typed, command_names, reentered, reference, subpath,
                   repo_uri, clone, project, file, prior, kstatus>>

AppRetriesAlways(p) == TRUE

\* app_create lines 174-175: if not path: raise
AppRetries(p) == p # ""

\* app_create lines 173-183: one more call of the engine, on the basename of
\* the repository directory joined with the sub-path, outside any try
AppHandler ==
    /\ kpc = "app_handler"
    /\ IF AppRetries(subpath)
       THEN /\ KLog("cookiecutter retry")
            /\ tried' = Append(tried, [repo |-> reference, path |-> subpath])
            /\ \/ /\ kexc' = NoExc
                  /\ kpc' = "return"
                  /\ UNCHANGED notfound
               \/ /\ KRaise(RepositoryNotFound)
                  /\ notfound' = notfound + 1
               \/ /\ KRaise(OtherError)
                  /\ UNCHANGED notfound
       ELSE /\ kpc' = "except"
            /\ UNCHANGED <<ktrace, tried, kexc, notfound>>
    /\ UNCHANGED <<impl, typed, command_names, reentered, reference, subpath,
                   repo_uri, clone, project, file, prior, kstatus>>

\* line 245, then line 265 (app_create: 185, 202)
CreateReturn ==
    /\ kpc = "return"
    /\ kstatus' = 0
    /\ kpc' = "done"
    /\ UNCHANGED <<impl, typed, command_names, reentered, reference, subpath,
                   repo_uri, clone, project, file, prior, tried, notfound,
                   kexc, ktrace>>

\* lines 253-265: the handlers of Create.run (app_create: 190-202)
CreateExcept ==
    /\ kpc = "except"
    /\ kstatus' = ExceptStatus(kexc)
    /\ kpc' = "done"
    /\ UNCHANGED <<impl, typed, command_names, reentered, reference, subpath,
                   repo_uri, clone, project, file, prior, tried, notfound,
                   kexc, ktrace>>

NextCreate ==
    /\ UNCHANGED <<uvars, rvars, cvars, dvars, ivars>>
    /\ \/ CreateRunArguments
       \/ CreateRun
       \/ CreateList
       \/ CreateDetermineRepoDir
       \/ CreateGenerateContext
       \/ ProjectGenerateFiles
       \/ ProjectOpen
       \/ ProjectDump
       \/ ProjectCleanup
       \/ AppSplit
       \/ AppCookiecutter
       \/ AppHandler
       \/ CreateReturn
       \/ CreateExcept

SpecCreate == InitCreate /\ [][NextCreate]_vars

KFinished == kpc = "done"

\* create.py's create succeeded and wrote its record
Created ==
    /\ KFinished
    /\ impl = "create"
    /\ typed # NoRef
    /\ kstatus = 0

\* the reference stored in the record file
StoredReference == JsonLoad(file.doc)["_template"]

\* a reference that an abbreviation of create still expands
IsAlias(t) == expand_abbreviations(t, CreateAbbreviations) # t

\* C12: after a successful create the record stores the abbreviation-expanded
\* form of the typed reference, which is the reference actually used with
\* its sub-path, and not an alias.
C12_StoredReferenceIsExpanded ==
    Created =>
        /\ ~IsAlias(StoredReference)
        /\ RepoUri(split_repo(StoredReference)) = repo_uri


EndsWithNoChanges == Finished /\ "No changes found" \in out /\ generated # before.targetTree

EndsBeforeMerge == Finished /\ status # 0 /\ Did("create_project") /\ ~Did("merge")

(***************************************************************************)
(* Upgrade.upgrade: the directories of the isolated working copy           *)
(***************************************************************************)
\* directory names of the scenarios
DirNames == {"app", "lib"}

\* os.path.basename, os.path.dirname, os.path.join on paths as components
Basename(p) == IF p = <<>> THEN "" ELSE p[Len(p)]
Dirname(p) == IF p = <<>> THEN <<>> ELSE SubSeq(p, 1, Len(p) - 1)
Join(p, q) == p \o q

\* str.strip(os.path.sep): the empty components a leading or trailing
\* separator gives are dropped
StripSep(p) == SelectSeq(p, LAMBDA c : c # "")

\* git rev-parse --show-prefix prints the sub-directory followed by a
\* separator, and nothing at the top level
PrefixOutput(p) == IF p = <<>> THEN <<>> ELSE Append(p, "")

\* the path q as git, run in directory p, sees it
RelativeTo(p, q) ==
    IF Len(q) >= Len(p) /\ SubSeq(q, 1, Len(p)) = p
    THEN [inside |-> TRUE, at |-> SubSeq(q, Len(p) + 1, Len(q))]
    ELSE [inside |-> FALSE, at |-> <<>>]

InitDest ==
    /\ InheritIdle
    /\ UpgradeIdle
    /\ ProvIdle
    /\ ChainIdle
    /\ CreateIdle
    /\ dpc = "toplevel"
    /\ show_toplevel \in SeqsUpTo(DirNames, MaxPrefix) \ {<<>>}
    /\ \E p \in SeqsUpTo(DirNames, MaxPrefix) : show_prefix = PrefixOutput(p)
    /\ rendered_name \in DirNames
    /\ app_name = ""
    /\ git_directory = <<>>
    /\ relative_directory = <<>>
    /\ work_directory = <<>>
    /\ dest_directory = <<>>
    /\ removed = <<>>
    /\ project_dir = <<>>
    /\ staged = [inside |-> FALSE, at |-> <<>>]

\* lines 333-335
DestToplevel ==
    /\ dpc = "toplevel"
    /\ app_name' = Basename(show_toplevel)
    /\ git_directory' = Join(show_toplevel, <<".git", "nagare-template">>)
    /\ dpc' = "prefix"
    /\ UNCHANGED <<show_toplevel, show_prefix, rendered_name,
                   relative_directory, work_directory, dest_directory,
                   removed, project_dir, staged>>

\* lines 336-337
DestPrefix ==
    /\ dpc = "prefix"
    /\ relative_directory' = StripSep(show_prefix)
    /\ work_directory' = Join(git_directory, <<app_name>>)
    /\ dpc' = "dest"
    /\ UNCHANGED <<show_toplevel, show_prefix, rendered_name, app_name,
                   git_directory, dest_directory, removed, project_dir,
                   staged>>

\* lines 360-365
DestDirectory ==
    /\ dpc = "dest"
    /\ IF relative_directory # <<>>
       THEN /\ removed' = Join(work_directory, relative_directory)
            /\ dest_directory' = Dirname(Join(work_directory, relative_directory))
       ELSE /\ dest_directory' = git_directory
            /\ UNCHANGED removed
    /\ dpc' = "generate"
    /\ UNCHANGED <<show_toplevel, show_prefix, rendered_name, app_name,
                   git_directory, relative_directory, work_directory,
                   project_dir, staged>>

\* lines 368-370 and 151-157: the rendering engine writes the directory the
\* template names, inside output_dir
DestGenerateFiles ==
    /\ dpc = "generate"
    /\ project_dir' = Join(dest_directory, <<rendered_name>>)
    /\ dpc' = "add"
    /\ UNCHANGED <<show_toplevel, show_prefix, rendered_name, app_name,
                   git_directory, relative_directory, work_directory,
                   dest_directory, removed, staged>>

\* line 375: git add -A . run in work_directory
DestGitAdd ==
    /\ dpc = "add"
    /\ staged' = RelativeTo(work_directory, project_dir)
    /\ dpc' = "staged"
    /\ UNCHANGED <<show_toplevel, show_prefix, rendered_name, app_name,
                   git_directory, relative_directory, work_directory,
                   dest_directory, removed, project_dir>>

NextDest ==
    /\ UNCHANGED <<uvars, rvars, cvars, kvars, ivars>>
    /\ \/ DestToplevel
       \/ DestPrefix
       \/ DestDirectory
       \/ DestGenerateFiles
       \/ DestGitAdd

SpecDest == InitDest /\ [][NextDest]_vars

\* C21: the rendering engine writes the regenerated project at the root of
\* the isolated working copy for a target at the repository root, and at the
\* mirrored sub-path (emptied first) for a target in a sub-directory, so
\* that staging finds it at the target's relative path, whatever directory
\* name the template renders.
C21_DestinationMirrorsTarget ==
    dpc = "staged" =>
        /\ project_dir = Join(work_directory, relative_directory)
        /\ staged = [inside |-> TRUE, at |-> relative_directory]
        /\ relative_directory # <<>> => removed = project_dir

(***************************************************************************)
(* The inherited context of one project, at its creation and at its upgrade *)
(***************************************************************************)
\* the directory name the template renders for the project
ProjectName == "a"

\* the default_context values of the user's configuration
UserDefaults == {EmptyDict, [b |-> 2]}

\* lines 151-157: generate_files returns output_dir joined with the rendered
\* name; the operating system follows the ".." of output_dir
ProjectDir(dir, path) == Append(Resolve(Absolute(dir, path)), ProjectName)

\* line 142: the parameters the template declares, a default replaced by
\* the value default_context has for the same key
TemplateContext(defaults) ==
    [k \in {"a", "b"} |-> IF k \in DOMAIN defaults THEN defaults[k] ELSE 1]

InitInherit ==
    /\ UpgradeIdle
    /\ ProvIdle
    /\ CreateIdle
    /\ DestIdle
    /\ ipc = "generate_context"
    /\ fs \in [Dirs -> RecordChoices]
    /\ cwd \in Dirs
    /\ output_dir \in [absolute : BOOLEAN, parts : SeqsUpTo(Components, 2)]
    /\ Walkable(cwd, output_dir)
    /\ ProjectDir(cwd, output_dir) \in Dirs
    /\ chain = EmptyDict
    /\ default_context \in UserDefaults
    /\ create_inherited = EmptyDict
    /\ directory = <<>>
    /\ upgrade_inherited = EmptyDict

\* Create.create line 239 and generate_context lines 133-144: the chain of
\* output_dir is merged into default_context, which is what is returned as
\* the inherited context
InheritGenerateContext ==
    /\ ipc = "generate_context"
    /\ chain' = retreive_inherited_context(fs, cwd, output_dir)
    /\ create_inherited' = DictUpdate(default_context, chain')
    /\ ipc' = "create_project"
    /\ UNCHANGED <<fs, cwd, output_dir, default_context, directory, upgrade_inherited>>

\* Create.create line 243 and create_project lines 151-162: the project is
\* rendered in output_dir and its record written
InheritCreateProject ==
    /\ ipc = "create_project"
    /\ fs' = [fs EXCEPT ![ProjectDir(cwd, output_dir)] =
                 StoredRecord(1, TemplateContext(create_inherited), create_inherited)]
    /\ ipc' = "upgrade"
    /\ UNCHANGED <<cwd, output_dir, chain, default_context, create_inherited, directory,
                   upgrade_inherited>>

\* Upgrade.upgrade lines 324 and 351, run later on the project directory
InheritUpgrade ==
    /\ ipc = "upgrade"
    /\ directory' = ProjectDir(cwd, output_dir)
    /\ upgrade_inherited' =
          retreive_inherited_context(fs, <<>>, [absolute |-> TRUE, parts |-> directory'])
    /\ ipc' = "upgraded"
    /\ UNCHANGED <<fs, cwd, output_dir, chain, default_context, create_inherited>>

NextInherit ==
    /\ UNCHANGED <<uvars, rvars, kvars, dvars>>
    /\ \/ InheritGenerateContext
       \/ InheritCreateProject
       \/ InheritUpgrade

SpecInherit == InitInherit /\ [][NextInherit]_vars

\* C23: the ancestor records merged when a project is created in an output
\* directory are those merged when the project is upgraded later, a record
\* in the output directory itself included, so that a key left out of the
\* project's record as inherited is supplied by the chain at upgrade.
C23_SameChainAtCreateAndUpgrade ==
    ipc = "upgraded" =>
        /\ upgrade_inherited = chain
        /\ \A k \in DOMAIN create_inherited :
              k \in DOMAIN upgrade_inherited /\ upgrade_inherited[k] = create_inherited[k]

(***************************************************************************)
(* Supporting lemmas: what the code guarantees around the failures above   *)
(***************************************************************************)
\* a finished run returns a non-zero status after a successful body only
\* when the removal of the working copy's directory failed
StatusAfterSuccessfulBody ==
    (Finished /\ BodySucceeded) =>
        \/ status = 0
        \/ status = 1 /\ CleanupRan /\ workdir /\ ~Did("worktree prune")

\* with a leftover directory or registration the attach step never succeeds:
\* git worktree add fails and the run ends with git's exit status
StaleLeftoverBlocksAttach ==
    (before.workdir \/ before.registered) =>
        /\ ~Did("read inherited context")
        /\ (Finished /\ Did("worktree add")) => status \in FailCodes

\* the status tells the outcome of the body in every run whose removal of
\* the working copy's directory did not raise
StatusUnlessRmtreeFailed ==
    (Finished /\ ~RmtreeFailed) =>
        /\ status = 0 <=> BodySucceeded
        /\ exc.type = "CalledProcessError" => status = exc.rc
        /\ exc.type = "Exception" => status = 1

\* a pattern that matches only paths the template branch does not know
NewOnlyPattern == \E p \in args.ignore : \A f \in p : TreeOf(BaseTip)[f] = 0

\* git checkout fails on such a pattern: the run never reaches the change
\* detection and ends with a non-zero status
NewOnlyPatternBlocksRun ==
    (OnlyIgnoredChanged /\ NewOnlyPattern /\ Did("checkout ignore")) =>
        /\ ~Did("diff-index --quiet HEAD")
        /\ Finished => status \in FailCodes

\* when the change detection is reached with only ignored paths changed, it
\* finds no change and nothing is committed
IgnoredChangesNotCommitted ==
    (OnlyIgnoredChanged /\ Did("diff-index --quiet HEAD")) =>
        /\ diff = 0
        /\ "No changes found" \in out
        /\ ~Did("commit")
        /\ Len(commits) = before.ncommits
        /\ Finished => (status = 0 \/ RmtreeFailed)

\* C13: the record is written only after the rendering engine returned: a
\* failed rendering leaves the record file as it was (absent or with its
\* prior content) and keeps the clone, and a transient clone is deleted only
\* after the rendering and the writing of the record succeeded.
C13_RecordAfterRendering ==
    /\ file # prior => project = "rendered"
    /\ project = "failed" => (file = prior /\ clone # "deleted")
    /\ clone = "deleted" =>
           /\ project = "rendered"
           /\ file = [exists |-> TRUE, doc |-> NewDoc]

\* a rendering failed over an existing record, with a transient clone
C13_Witness ==
    /\ KFinished
    /\ project = "failed"
    /\ prior = OldFile
    /\ clone = "transient"
    /\ kstatus = 1

\* the reference handed to the first resolution carried a sub-path
CarriedSubpath ==
    IF impl = "app_create" THEN subpath # ""
    ELSE tried # <<>> /\ tried[1].repo # NoRef /\ tried[1].path # ""

C19_AtomicRecordWrite ==
    \/ file = prior
    \/ file = [exists |-> TRUE, doc |-> NewDoc]

\* create stores the template argument it received: the typed reference
\* when _run was called with one command name, its expansion by _run
\* otherwise
StoredReferenceIsArgument ==
    Created =>
        StoredReference =
            IF command_names = 1 THEN typed
            ELSE expand_abbreviations(typed, CreateAbbreviations)

\* the regenerated project mirrors the target when the template renders the
\* name of the target directory
DestinationMirrorsWhenNamesAgree ==
    (dpc = "staged" /\ rendered_name = Basename(Join(show_toplevel, relative_directory))) =>
        /\ project_dir = Join(work_directory, relative_directory)
        /\ staged = [inside |-> TRUE, at |-> relative_directory]
        /\ relative_directory # <<>> => removed = project_dir

\* and only then
DestinationElsewhereOtherwise ==
    (dpc = "staged" /\ rendered_name # Basename(Join(show_toplevel, relative_directory))) =>
        /\ project_dir # Join(work_directory, relative_directory)
        /\ relative_directory = <<>> => ~staged.inside

\* the output directory of the creation, as a directory of the file system
OutputDir == Resolve(Absolute(cwd, output_dir))

\* without a record in the output directory and without ".." in its path
\* the two operations merge the same ancestor records
SameChainWhenOutputDirHasNoRecord ==
    (/\ ipc = "upgraded"
     /\ fs[OutputDir] = NoRecord
     /\ \A i \in 1..Len(Absolute(cwd, output_dir)) : Absolute(cwd, output_dir)[i] # "..")
        => upgrade_inherited = chain

\* the upgrade merges the records of the strict ancestors of the project
\* directory, the output directory included
UpgradeChainIsAncestorMerge ==
    ipc = "upgraded" => upgrade_inherited = AncestorMerge(fs, directory)

\* for a path without ".." the creation merges the records of the strict
\* ancestors of the output directory, which leaves the output directory out
CreateChainLeavesOutputDirOut ==
    (/\ ipc = "upgraded"
     /\ \A i \in 1..Len(Absolute(cwd, output_dir)) : Absolute(cwd, output_dir)[i] # "..")
        => chain = AncestorMerge(fs, OutputDir)

\* once the try block is entered the removal is always attempted
CleanupAttemptedAfterAttach ==
    (Finished /\ Did("read inherited context")) => CleanupRan

\* a run without changes creates no commit and moves no branch
NoChangesEffects ==
    (Finished /\ diff = 0) =>
        /\ "No changes found" \in out
        /\ ~Did("commit")
        /\ ~Did("merge")
        /\ Len(commits) = before.ncommits
        /\ head = before.head

\* a run with merging suppressed adds one commit and leaves the main line
NoMergeEffects ==
    (Finished /\ ~args.merge /\ CommitDone) =>
        /\ Len(commits) = before.ncommits + 1
        /\ ~Did("merge")
        /\ head = before.head
        /\ targetTree = before.targetTree
        /\ "Manual merge needed" \in out

\* for a path without ".." the chain is the merge of the strict ancestors
ChainOfPlainPath ==
    (/\ pstep = "chained"
     /\ \A i \in 1..Len(Absolute(cwd, output_dir)) : Absolute(cwd, output_dir)[i] # "..")
        => chain = AncestorMerge(fs, TargetDir)

====
